---------------------------- MODULE Spec2Model ----------------------------
(***************************************************************************)
(* A model of src/core/utils.h of trojan-plus: the write coalescer         *)
(* (SendDataCache), the read adapter (ReadDataCache), the outbound         *)
(* connector (connect_out_socket, connect_remote_server_ssl) and the TLS   *)
(* shutdown (shutdown_ssl_socket).                                         *)
(*                                                                         *)
(* Bytes are modelled as sequences of tags: the bytes of the k-th          *)
(* push_data are <<k>> (or <<>> for an empty string), the bytes of the     *)
(* j-th insert_data are <<-j>> (or <<>>).  A SentHandler is identified by  *)
(* the number of the push_data that registered it.                         *)
(*                                                                         *)
(* All handlers run on one event loop (boost::asio::io_context): one       *)
(* handler at a time.  A handler that calls user code which may call back  *)
(* into the object is split at those calls, and nothing but such a call    *)
(* can happen until it returns.                                            *)
(***************************************************************************)
EXTENDS Integers, Sequences, FiniteSets, TLC

\* ------------------------------------------------------------- bounds
MaxPush == 3        \* push_data calls on a SendDataCache
MaxInsert == 1      \* insert_data calls on a SendDataCache
MaxRdPush == 3      \* push_data calls on a ReadDataCache
MaxRead == 3        \* async_read calls on a ReadDataCache
MaxConnectTimeOut == 1  \* config.tcp.connect_time_out is drawn from 0..MaxConnectTimeOut
MaxShutdownCalls == 2   \* shutdown_ssl_socket calls on one socket

VARIABLES
    \* SendDataCache (utils.h 102-162)
    handler_queue,          \* std::vector<SentHandler>: ids of the queued handlers
    data_queue,             \* std::string: the queued bytes
    sending_data_buff,      \* std::string: the bytes handed to the writer
    sending_data_handler,   \* std::vector<SentHandler>: the in-flight handlers
    is_async_sending,       \* bool
    connected,              \* what is_connected() returns now
    outstanding,            \* calls of async_writer whose SentHandler has not run
    send_pc,                \* "idle", or "firing": inside the loop of line 154
    fire_i,                 \* the index (1-based) of the handler now running
    send_crashed,           \* the process died of the dangling functor (147/155)
    \* history of the SendDataCache, read by the properties only
    npush, ninsert,         \* calls made so far
    nonempty_ids,           \* pushes whose bytes were not empty
    written,                \* every segment handed to async_writer, in order
    fired,                  \* the handlers invoked, in order
    ok_tags,                \* byte tags of the segments written successfully
    dropped,                \* handlers moved in flight by a write that failed, each
                            \* with the number of handlers fired before the failure
    fire_snap,              \* in-flight handlers at the issue of the completed write
    ins_log,                \* insert_data calls made with bytes queued
    \* ReadDataCache (utils.h 164-188)
    rd_data_queue,          \* std::string data_queue: the buffered bytes
    read_handler,           \* ReadHandler: the id of the stored handler, 0 if none
    is_waiting,             \* bool
    rd_stack,               \* the ReadHandlers now running, outermost first
    rd_crashed,             \* the process died of the overwritten functor (173/182)
    \* history of the ReadDataCache, read by the properties only
    rd_npush, rd_nread,     \* calls made so far
    rd_pushed,              \* all bytes pushed, in order
    rd_delivered,           \* the handler invocations: [h, data], in order
    rd_plain,               \* no call was made from inside a handler, and no
                            \* async_read while another was waiting
    \* one call of connect_out_socket / connect_remote_server_ssl (utils.h 190-272)
    config,                 \* this_ptr->config.tcp: no_delay, keep_alive, fast_open,
                            \* connect_time_out
    use_ssl,                \* the call is connect_remote_server_ssl
    resolve_op,             \* resolver.async_resolve: "idle", "pending", "done"
    resolve_result,         \* what it completed with: "none", "ok", "error", "empty"
    out_socket,             \* [open, opts]: is it open, and the options set on it
    timeout_timer,          \* "none" (nullptr), "waiting", "ready_ok" (expired, the
                            \* handler queued), "ready_aborted" (cancelled, the handler
                            \* queued), "done" (the handler has run)
    connect_op,             \* out_socket.async_connect: "none", "pending",
                            \* "ready_ok", "ready_err" (handler queued), "done"
    handshake_op,           \* out_socket.async_handshake: the same
    connect_result,         \* the error code of the connect: "none", "ok", "err"
    handshake_result,       \* the error code of the handshake: "none", "ok", "err"
    timer_expired,          \* the wait on timeout_timer has expired (not cancelled)
    co_log,                 \* the calls the attempt has made on its collaborators
                            \* (log, destroy, socket, timer, continuations), in order
    \* shutdown_ssl_socket on one TLS socket (utils.h 274-295)
    socket_open,            \* socket.next_layer().is_open()
    ssl_shutdown,           \* one record for each call made on the open socket:
                            \* timer: ssl_shutdown_timer, "waiting", "ready_ok",
                            \*   "ready_aborted" (handler queued) or "done";
                            \* op: socket.async_shutdown, "pending", "ready_ok",
                            \*   "ready_err", "ready_aborted" (handler queued), "done";
                            \* by_op, by_timer (history): the runs of lines 283-287
                            \*   made by the handler of the one and of the other
    nshutdown               \* calls of shutdown_ssl_socket made so far

sendVars == <<handler_queue, data_queue, sending_data_buff, sending_data_handler,
              is_async_sending, connected, outstanding, send_pc, fire_i,
              send_crashed, npush, ninsert, nonempty_ids, written, fired,
              ok_tags, dropped, fire_snap, ins_log>>

readVars == <<rd_data_queue, read_handler, is_waiting, rd_stack, rd_crashed,
              rd_npush, rd_nread, rd_pushed, rd_delivered, rd_plain>>

connVars == <<config, use_ssl, resolve_op, resolve_result, out_socket,
              timeout_timer, connect_op, handshake_op, connect_result,
              handshake_result, timer_expired, co_log>>

shutVars == <<socket_open, ssl_shutdown, nshutdown>>

vars == <<sendVars, readVars, connVars, shutVars>>

\* each object is driven on its own: a step of one leaves the others alone
notSendVars == <<readVars, connVars, shutVars>>
notReadVars == <<sendVars, connVars, shutVars>>
notConnVars == <<sendVars, readVars, shutVars>>
notShutVars == <<sendVars, readVars, connVars>>

\* ------------------------------------------------------------- helpers
SeqToSet(s) == {s[i] : i \in DOMAIN s}

\* s occurs in t as a contiguous run
Contig(s, t) ==
    \E k \in 0..(Len(t) - Len(s)) : \A i \in 1..Len(s) : t[k + i] = s[i]

\* --------------------------------------------------------- SendDataCache

\* SendDataCache(): is_async_sending(false), is_connected = [] { return true; }
SendInit ==
    /\ handler_queue = <<>>
    /\ data_queue = <<>>
    /\ sending_data_buff = <<>>
    /\ sending_data_handler = <<>>
    /\ is_async_sending = FALSE
    /\ connected = TRUE
    /\ outstanding = <<>>
    /\ send_pc = "idle"
    /\ fire_i = 0
    /\ send_crashed = FALSE
    /\ npush = 0
    /\ ninsert = 0
    /\ nonempty_ids = {}
    /\ written = <<>>
    /\ fired = <<>>
    /\ ok_tags = {}
    /\ dropped = {}
    /\ fire_snap = <<>>
    /\ ins_log = {}

\* line 138: the early return of async_send
SendBlocked_NoFlag(dq, sending) == dq = <<>> \/ ~connected

SendBlocked_NoConnected(dq, sending) == dq = <<>> \/ sending

SendBlocked(dq, sending) == dq = <<>> \/ ~connected \/ sending

\* line 147: std::move(handler_queue..., std::back_inserter(sending_data_handler))
MoveHandlers_Front(sdh, hq) == hq \o sdh

MoveHandlers(sdh, hq) == sdh \o hq

\* line 127: data_queue = data + data_queue
InsertedQueue_Back(d, dq) == dq \o d

InsertedQueue(d, dq) == d \o dq

\* line 132: data_queue += data
PushedQueue(d, dq) == dq \o d

\* a SentHandler of sending_data_handler is running (the call comes from inside it)
InHandler == send_pc = "firing"

\* lines 137-161, async_send(), run on the values dq, hq, sdh, sending, outs that
\* the caller has left in data_queue, handler_queue, sending_data_handler,
\* is_async_sending and the writer.  Appending to sending_data_handler while one of
\* its elements is running (running) may reallocate the vector under the running
\* std::function: the handler goes on, or the process dies.
AsyncSendFrom(dq, hq, sdh, sending, outs, running) ==
    IF SendBlocked(dq, sending)
    THEN /\ data_queue' = dq
         /\ handler_queue' = hq
         /\ sending_data_handler' = sdh
         /\ is_async_sending' = sending
         /\ outstanding' = outs
         /\ UNCHANGED <<sending_data_buff, written, send_crashed>>
    ELSE /\ is_async_sending' = TRUE
         /\ sending_data_buff' = dq
         /\ data_queue' = <<>>
         /\ sending_data_handler' = MoveHandlers(sdh, hq)
         /\ handler_queue' = <<>>
         /\ outstanding' = Append(outs, [data |-> dq,
                                         moved |-> hq,
                                         snap |-> MoveHandlers(sdh, hq)])
         /\ written' = Append(written, dq)
         /\ IF running /\ hq # <<>>
            THEN send_crashed' \in BOOLEAN
            ELSE send_crashed' = send_crashed

\* line 158: nothing is drained after a successful completion
Redrain_Skipped(dq, hq, sdh, sending, outs) ==
    /\ data_queue' = dq
    /\ handler_queue' = hq
    /\ sending_data_handler' = sdh
    /\ is_async_sending' = sending
    /\ outstanding' = outs
    /\ UNCHANGED <<sending_data_buff, written, send_crashed>>

\* line 158: async_send() at the end of a successful completion, after the loop
Redrain(dq, hq, sdh, sending, outs) ==
    AsyncSendFrom(dq, hq, sdh, sending, outs, FALSE)

\* lines 131-135, push_data(data, handler), from the event loop or from inside a
\* running SentHandler
push_data(d) ==
    /\ ~send_crashed
    /\ npush < MaxPush
    /\ npush' = npush + 1
    /\ nonempty_ids' = IF d = <<>> THEN nonempty_ids ELSE nonempty_ids \cup {npush + 1}
    /\ AsyncSendFrom(PushedQueue(d, data_queue), Append(handler_queue, npush + 1),
                     sending_data_handler, is_async_sending, outstanding, InHandler)
    /\ UNCHANGED <<connected, send_pc, fire_i, ninsert, fired, ok_tags, dropped,
                   fire_snap, ins_log>>
    /\ UNCHANGED notSendVars

\* lines 126-129, insert_data(data)
insert_data(d) ==
    /\ ~send_crashed
    /\ ninsert < MaxInsert
    /\ ninsert' = ninsert + 1
    /\ ins_log' = IF d # <<>> /\ data_queue # <<>>
                  THEN ins_log \cup {[b |-> d, rest |-> data_queue, at |-> Len(written)]}
                  ELSE ins_log
    /\ AsyncSendFrom(InsertedQueue(d, data_queue), handler_queue,
                     sending_data_handler, is_async_sending, outstanding, InHandler)
    /\ UNCHANGED <<connected, send_pc, fire_i, npush, nonempty_ids, fired, ok_tags,
                   dropped, fire_snap>>
    /\ UNCHANGED notSendVars

\* lines 137-161, async_send() called by the owner (it is public)
async_send ==
    /\ ~send_crashed
    /\ AsyncSendFrom(data_queue, handler_queue, sending_data_handler,
                     is_async_sending, outstanding, InHandler)
    /\ UNCHANGED <<connected, send_pc, fire_i, npush, ninsert, nonempty_ids, fired,
                   ok_tags, dropped, fire_snap, ins_log>>
    /\ UNCHANGED notSendVars

\* lines 111, 122-124: the transport behind is_connected() connects or disconnects
set_connected ==
    /\ ~send_crashed
    /\ connected' = ~connected
    /\ UNCHANGED <<handler_queue, data_queue, sending_data_buff,
                   sending_data_handler, is_async_sending, outstanding, send_pc,
                   fire_i, send_crashed, npush, ninsert, nonempty_ids, written,
                   fired, ok_tags, dropped, fire_snap, ins_log>>
    /\ UNCHANGED notSendVars

\* line 157: sending_data_handler.clear()
ClearedHandlers(sdh) == <<>>

\* lines 150-152 with ec set: the writer reports a failure
write_failed ==
    /\ ~send_crashed
    /\ send_pc = "idle"
    /\ outstanding # <<>>
    /\ is_async_sending' = FALSE
    /\ outstanding' = Tail(outstanding)
    /\ dropped' = dropped \cup {[h |-> Head(outstanding).moved[k], at |-> Len(fired)] :
                                  k \in DOMAIN Head(outstanding).moved}
    /\ UNCHANGED <<handler_queue, data_queue, sending_data_buff,
                   sending_data_handler, connected, send_pc, fire_i, send_crashed,
                   npush, ninsert, nonempty_ids, written, fired, ok_tags,
                   fire_snap, ins_log>>
    /\ UNCHANGED notSendVars

\* lines 150-159 with !ec: the writer reports success; the first handler is called
\* (or, with no handler, the loop is skipped and lines 157-158 run)
write_done ==
    /\ ~send_crashed
    /\ send_pc = "idle"
    /\ outstanding # <<>>
    /\ ok_tags' = ok_tags \cup SeqToSet(Head(outstanding).data)
    /\ fire_snap' = Head(outstanding).snap
    /\ IF sending_data_handler # <<>>
       THEN /\ is_async_sending' = FALSE
            /\ outstanding' = Tail(outstanding)
            /\ send_pc' = "firing"
            /\ fire_i' = 1
            /\ fired' = Append(fired, sending_data_handler[1])
            /\ UNCHANGED <<handler_queue, data_queue, sending_data_buff,
                           sending_data_handler, written, send_crashed>>
       ELSE /\ Redrain(data_queue, handler_queue,
                       ClearedHandlers(sending_data_handler), FALSE,
                       Tail(outstanding))
            /\ UNCHANGED <<send_pc, fire_i, fired>>
    /\ UNCHANGED <<connected, npush, ninsert, nonempty_ids, dropped, ins_log>>
    /\ UNCHANGED notSendVars

\* lines 154-158: the running handler returns; the loop calls the next one, or ends,
\* clears the in-flight handlers and drains again
handler_return ==
    /\ ~send_crashed
    /\ send_pc = "firing"
    /\ IF fire_i < Len(sending_data_handler)
       THEN /\ fire_i' = fire_i + 1
            /\ fired' = Append(fired, sending_data_handler[fire_i + 1])
            /\ UNCHANGED <<handler_queue, data_queue, sending_data_buff,
                           sending_data_handler, is_async_sending, outstanding,
                           send_pc, written, send_crashed>>
       ELSE /\ send_pc' = "idle"
            /\ fire_i' = 0
            /\ Redrain(data_queue, handler_queue,
                       ClearedHandlers(sending_data_handler),
                       is_async_sending, outstanding)
            /\ UNCHANGED fired
    /\ UNCHANGED <<connected, npush, ninsert, nonempty_ids, ok_tags, dropped,
                   fire_snap, ins_log>>
    /\ UNCHANGED notSendVars

\* what a push_data or insert_data is given: an empty or a non-empty string
PushData == {<<>>, <<npush + 1>>}
InsertData == {<<>>, <<-(ninsert + 1)>>}

SendNext ==
    \/ \E d \in PushData : push_data(d)
    \/ \E d \in InsertData : insert_data(d)
    \/ async_send
    \/ set_connected
    \/ write_failed
    \/ write_done
    \/ handler_return

\* ------------------------------------------------- SendDataCache: properties

\* C1: at most one call of the underlying async writer is outstanding in every
\* reachable state, and a push_data or insert_data made while a write is
\* outstanding invokes no writer: it leaves the outstanding write and the
\* segments written as they are, and the queue does not shrink.
C1_SingleWriteInFlight ==
    /\ [](Len(outstanding) <= 1)
    /\ [][(/\ outstanding # <<>>
           /\ \/ \E d \in PushData : push_data(d)
              \/ \E d \in InsertData : insert_data(d))
          => /\ written' = written
             /\ outstanding' = outstanding
             /\ Len(data_queue') >= Len(data_queue)
             /\ Len(handler_queue') >= Len(handler_queue)]_vars

\* a write is outstanding and bytes pushed meanwhile wait in the queue
C1_Witness ==
    /\ Len(outstanding) = 1
    /\ Len(written) = 1
    /\ connected
    /\ data_queue # <<>>
    /\ handler_queue # <<>>

\* C2: a handler registered by push_data(bytes, c) is never fired before the write
\* of the segment that contains those bytes has completed successfully.
C2_FiredOnlyAfterSuccessfulWrite ==
    \A i \in DOMAIN fired : fired[i] \in nonempty_ids => fired[i] \in ok_tags

\* C3: the handlers of a segment whose write failed are dropped: none of them is
\* fired at the failure or at any later time.
C3_FailedHandlersNeverFired ==
    \A r \in dropped : \A k \in DOMAIN fired : fired[k] = r.h => k <= r.at

\* C4: the handlers that are fired are fired in the order of their pushes, and
\* each at most once.
C4_FiredInPushOrderOnce ==
    \A i, j \in DOMAIN fired : i < j => fired[i] < fired[j]

\* three handlers fired, with a failed write and a push made from inside a handler
\* on the way
C4_Witness ==
    /\ Len(fired) = 3
    /\ dropped # {}
    /\ \E i \in DOMAIN fired : fired[i] \notin ok_tags

\* C5: while the handlers of a completed write are being fired, the in-flight
\* handlers are the ones snapshotted when that write was issued: a push_data or
\* insert_data made from inside a handler adds nothing to them.
C5_FiringListIsIssueSnapshot ==
    send_pc = "firing" => sending_data_handler = fire_snap

\* C6: insert_data(b) made while bytes b0 are queued puts b right before b0 and
\* the rest of the queue, in the queue and in the next segment issued.
C6_InsertPrecedesQueued ==
    \A r \in ins_log :
        IF Len(written) > r.at
        THEN Contig(r.b \o r.rest, written[r.at + 1])
        ELSE Contig(r.b \o r.rest, data_queue)

\* an insert_data made with bytes queued has been handed to the writer, together
\* with bytes pushed after it
C6_Witness ==
    \E r \in ins_log :
        /\ Len(written) > r.at
        /\ Len(written[r.at + 1]) > Len(r.b \o r.rest)

\* --------------------------------------------------------- ReadDataCache

\* ReadDataCache(): is_waiting(false)
ReadInit ==
    /\ rd_data_queue = <<>>
    /\ read_handler = 0
    /\ is_waiting = FALSE
    /\ rd_stack = <<>>
    /\ rd_crashed = FALSE
    /\ rd_npush = 0
    /\ rd_nread = 0
    /\ rd_pushed = <<>>
    /\ rd_delivered = <<>>
    /\ rd_plain = TRUE

\* line 175: data_queue += data
RdAppended(q, d) == q \o d

\* line 180: data_queue.empty()
RdBufferEmpty_Always(q) == TRUE

RdBufferEmpty(q) == q = <<>>

\* line 185: data_queue.clear()
RdCleared_Kept(q) == q

RdCleared(q) == <<>>

\* lines 170-177, push_data(data), from the event loop or from inside a running
\* ReadHandler; with a consumer waiting, read_handler(data) is called and runs
\* until rd_handler_return
rd_push_data(d) ==
    /\ ~rd_crashed
    /\ rd_npush < MaxRdPush
    /\ rd_npush' = rd_npush + 1
    /\ rd_pushed' = rd_pushed \o d
    /\ rd_plain' = (rd_plain /\ rd_stack = <<>>)
    /\ IF is_waiting
       THEN /\ is_waiting' = FALSE
            /\ rd_delivered' = Append(rd_delivered, [h |-> read_handler, data |-> d])
            /\ rd_stack' = Append(rd_stack, [kind |-> "push", h |-> read_handler])
            /\ UNCHANGED rd_data_queue
       ELSE /\ rd_data_queue' = RdAppended(rd_data_queue, d)
            /\ UNCHANGED <<is_waiting, rd_delivered, rd_stack>>
    /\ UNCHANGED <<read_handler, rd_crashed, rd_nread>>
    /\ UNCHANGED notReadVars

\* lines 179-187, async_read(handler), from the event loop or from inside a running
\* ReadHandler; with bytes buffered, handler(data_queue) is called and runs until
\* rd_handler_return, which clears the buffer.  Line 182 assigns read_handler: when
\* the std::function it holds is the one running (called at line 173), its target
\* is destroyed under it: the handler goes on, or the process dies.
rd_async_read ==
    /\ ~rd_crashed
    /\ rd_nread < MaxRead
    /\ rd_nread' = rd_nread + 1
    /\ rd_plain' = (rd_plain /\ rd_stack = <<>> /\ ~is_waiting)
    /\ IF RdBufferEmpty(rd_data_queue)
       THEN /\ is_waiting' = TRUE
            /\ read_handler' = rd_nread + 1
            /\ IF \E k \in DOMAIN rd_stack :
                      rd_stack[k].kind = "push" /\ rd_stack[k].h = read_handler
               THEN rd_crashed' \in BOOLEAN
               ELSE rd_crashed' = rd_crashed
            /\ UNCHANGED <<rd_delivered, rd_stack>>
       ELSE /\ rd_delivered' = Append(rd_delivered,
                                      [h |-> rd_nread + 1, data |-> rd_data_queue])
            /\ rd_stack' = Append(rd_stack, [kind |-> "read", h |-> rd_nread + 1])
            /\ UNCHANGED <<is_waiting, read_handler, rd_crashed>>
    /\ UNCHANGED <<rd_data_queue, rd_npush, rd_pushed>>
    /\ UNCHANGED notReadVars

\* the innermost running ReadHandler returns: to line 174 (push_data is over) or to
\* line 185 (async_read clears the buffer)
rd_handler_return ==
    /\ ~rd_crashed
    /\ rd_stack # <<>>
    /\ rd_stack' = SubSeq(rd_stack, 1, Len(rd_stack) - 1)
    /\ rd_data_queue' = IF rd_stack[Len(rd_stack)].kind = "read"
                        THEN RdCleared(rd_data_queue)
                        ELSE rd_data_queue
    /\ UNCHANGED <<read_handler, is_waiting, rd_crashed, rd_npush, rd_nread,
                   rd_pushed, rd_delivered, rd_plain>>
    /\ UNCHANGED notReadVars

\* what a push_data is given: an empty or a non-empty string
RdPushData == {<<>>, <<rd_npush + 1>>}

ReadNext ==
    \/ \E d \in RdPushData : rd_push_data(d)
    \/ rd_async_read
    \/ rd_handler_return

\* ------------------------------------------------- ReadDataCache: properties

RECURSIVE DeliveredBytes(_)
\* the bytes of the deliveries dl, concatenated in delivery order
DeliveredBytes(dl) ==
    IF dl = <<>> THEN <<>> ELSE dl[1].data \o DeliveredBytes(Tail(dl))

\* C7: the buffer being non-empty and a consumer being recorded as waiting never
\* hold at the same time, whatever is called, from inside a handler or not.
C7_BufferXorWaiting ==
    ~(rd_data_queue # <<>> /\ is_waiting)

\* a consumer waits, after bytes were buffered and delivered and after calls made
\* from inside a handler
C7_Witness ==
    /\ is_waiting
    /\ ~rd_plain
    /\ rd_stack # <<>>
    /\ rd_delivered # <<>>
    /\ rd_npush >= 2

\* C8: with no call made from inside a handler and at most one request outstanding,
\* the bytes delivered, in delivery order, followed by the buffer, are the bytes
\* pushed, in push order: a push_data with a consumer waiting delivers exactly its
\* bytes and clears waiting, an async_read with bytes buffered delivers the whole
\* buffer and empties it when the handler returns.
C8_DeliveredThenBufferIsPushed ==
    rd_plain =>
        /\ rd_stack = <<>> =>
              DeliveredBytes(rd_delivered) \o rd_data_queue = rd_pushed
        /\ rd_stack # <<>> =>
              /\ Len(rd_stack) = 1
              /\ DeliveredBytes(rd_delivered) = rd_pushed
              /\ ~is_waiting
              /\ rd_stack[1].kind = "read" =>
                    rd_delivered[Len(rd_delivered)].data = rd_data_queue
              /\ rd_stack[1].kind = "push" => rd_data_queue = <<>>

\* both ways of delivery have happened: a buffer of two pushes, and a push to the
\* waiting handler
C8_Witness ==
    /\ rd_plain
    /\ rd_stack = <<>>
    /\ \E i, j \in DOMAIN rd_delivered :
          /\ Len(rd_delivered[i].data) = 2
          /\ rd_delivered[j].h = read_handler
          /\ rd_delivered[j].data # <<>>

\* ------------------------------------ connect_out_socket / connect_remote_server_ssl

\* One attempt is modelled.  The resolver, the timer and the socket are boost::asio
\* objects: an asynchronous operation completes at some time and its handler is then
\* queued on the io_context, which runs the queued handlers one at a time, in any
\* order.  steady_timer::cancel() turns a wait that has not expired into one whose
\* handler is queued with operation_aborted; a wait that has expired keeps its
\* queued handler and its success code.

\* this_ptr->config.tcp, as far as the connector reads it
Configs ==
    [no_delay : BOOLEAN, keep_alive : BOOLEAN, fast_open : BOOLEAN,
     connect_time_out : 0..MaxConnectTimeOut]

\* no attempt has been started
ConnInit ==
    /\ config = [no_delay |-> FALSE, keep_alive |-> FALSE, fast_open |-> FALSE,
                 connect_time_out |-> 0]
    /\ use_ssl = FALSE
    /\ resolve_op = "idle"
    /\ resolve_result = "none"
    /\ out_socket = [open |-> FALSE, opts |-> {}]
    /\ timeout_timer = "none"
    /\ connect_op = "none"
    /\ handshake_op = "none"
    /\ connect_result = "none"
    /\ handshake_result = "none"
    /\ timer_expired = FALSE
    /\ co_log = <<>>

\* the number of calls of this_ptr->destroy() made so far
Count(log, e) == Cardinality({i \in DOMAIN log : log[i] = e})

\* the owning session has not been destroyed: destroy() tears the session down and
\* closes its sockets, so no operation on them succeeds afterwards
SessionAlive == Count(co_log, "destroy") = 0

\* line 194: error || results.empty()
ResolveFailed_ErrorOnly(res) == res = "error"

ResolveFailed(res) == res \in {"error", "empty"}

\* lines 207-219: the socket options the configuration asks for; fast open is set
\* only in a build that defines TCP_FASTOPEN_CONNECT and its failure is ignored
\* (fastopen_set: the build has it and the call succeeded)
SocketOptions(fastopen_set) ==
    {o \in {"no_delay", "keep_alive"} : config[o]}
        \cup (IF config.fast_open /\ fastopen_set THEN {"fast_open"} ELSE {})

\* line 221: this_ptr->config.tcp.connect_time_out > 0
TimerWanted_Never(cfg) == FALSE

TimerWanted(cfg) == cfg.connect_time_out > 0

\* line 236: timeout_timer->cancel()
Cancelled(t) == IF t = "waiting" THEN "ready_aborted" ELSE t

\* lines 191-193 (and 251-253): the call, of connect_out_socket or (ssl) of
\* connect_remote_server_ssl, by a session whose configuration is cfg; the call
\* itself only starts the resolution
connect_out_socket(cfg, ssl) ==
    /\ resolve_op = "idle"
    /\ resolve_op' = "pending"
    /\ config' = cfg
    /\ use_ssl' = ssl
    /\ UNCHANGED <<resolve_result, out_socket, timeout_timer, connect_op,
                   handshake_op, connect_result, handshake_result,
                   timer_expired, co_log>>
    /\ UNCHANGED notConnVars

\* lines 193-247: the resolve handler, given the resolver's answer res, whether
\* out_socket.open() succeeds and whether the fast open option can be set
resolve_handler(res, open_ok, fastopen_set) ==
    /\ resolve_op = "pending"
    /\ resolve_op' = "done"
    /\ resolve_result' = res
    /\ IF ResolveFailed(res)
       THEN /\ co_log' = co_log \o <<"log_error_resolve", "destroy">>
            /\ UNCHANGED <<out_socket, timeout_timer, connect_op>>
       ELSE IF ~open_ok
       THEN /\ co_log' = co_log \o <<"log_all_resolved", "open", "destroy">>
            /\ UNCHANGED <<out_socket, timeout_timer, connect_op>>
       ELSE /\ out_socket' = [open |-> TRUE, opts |-> SocketOptions(fastopen_set)]
            /\ timeout_timer' = IF TimerWanted(config) THEN "waiting" ELSE "none"
            /\ connect_op' = "pending"
            /\ co_log' = co_log \o <<"log_all_resolved", "open">>
                                \o (IF TimerWanted(config)
                                    THEN <<"timer_start">> ELSE <<>>)
                                \o <<"async_connect">>
    /\ UNCHANGED <<config, use_ssl, handshake_op, connect_result,
                   handshake_result, timer_expired>>
    /\ UNCHANGED notConnVars

\* the steady_timer expires: its handler is queued with a success code
timer_expires ==
    /\ timeout_timer = "waiting"
    /\ timeout_timer' = "ready_ok"
    /\ timer_expired' = TRUE
    /\ UNCHANGED <<config, use_ssl, resolve_op, resolve_result, out_socket,
                   connect_op, handshake_op, connect_result, handshake_result,
                   co_log>>
    /\ UNCHANGED notConnVars

\* line 227: !error, for the handler of a wait that ended as t
TimerFired_Always(t) == TRUE

TimerFired(t) == t = "ready_ok"

\* lines 226-231: the handler of the timeout timer
timer_handler ==
    /\ timeout_timer \in {"ready_ok", "ready_aborted"}
    /\ timeout_timer' = "done"
    /\ co_log' = IF TimerFired(timeout_timer)
                 THEN co_log \o <<"log_error_timeout", "destroy">>
                 ELSE co_log
    /\ UNCHANGED <<config, use_ssl, resolve_op, resolve_result, out_socket,
                   connect_op, handshake_op, connect_result, handshake_result,
                   timer_expired>>
    /\ UNCHANGED notConnVars

\* async_connect completes, with success (only on a socket that destroy() has not
\* closed) or with an error: its handler is queued
connect_completes(ok) ==
    /\ connect_op = "pending"
    /\ ok => SessionAlive
    /\ connect_op' = IF ok THEN "ready_ok" ELSE "ready_err"
    /\ connect_result' = IF ok THEN "ok" ELSE "err"
    /\ UNCHANGED <<config, use_ssl, resolve_op, resolve_result, out_socket,
                   timeout_timer, handshake_op, handshake_result, timer_expired,
                   co_log>>
    /\ UNCHANGED notConnVars

\* line 239: error, for the handler of a connect that ended as op
ConnectFailed(op) == op = "ready_err"

\* lines 234-246: the connect handler; for connect_remote_server_ssl the
\* connected_handler is the lambda of line 253, which starts the handshake (254)
connect_handler ==
    /\ connect_op \in {"ready_ok", "ready_err"}
    /\ connect_op' = "done"
    /\ timeout_timer' = Cancelled(timeout_timer)
    /\ LET cancel == IF timeout_timer # "none" THEN <<"timer_cancel">> ELSE <<>>
       IN  IF ConnectFailed(connect_op)
           THEN /\ co_log' = co_log \o cancel \o <<"log_error_connect", "destroy">>
                /\ UNCHANGED handshake_op
           ELSE IF use_ssl
           THEN /\ co_log' = co_log \o cancel \o <<"async_handshake">>
                /\ handshake_op' = "pending"
           ELSE /\ co_log' = co_log \o cancel \o <<"connected_handler">>
                /\ UNCHANGED handshake_op
    /\ UNCHANGED <<config, use_ssl, resolve_op, resolve_result, out_socket,
                   connect_result, handshake_result, timer_expired>>
    /\ UNCHANGED notConnVars

\* async_handshake completes, with success (only on a socket that destroy() has not
\* closed) or with an error: its handler is queued
handshake_completes(ok) ==
    /\ handshake_op = "pending"
    /\ ok => SessionAlive
    /\ handshake_op' = IF ok THEN "ready_ok" ELSE "ready_err"
    /\ handshake_result' = IF ok THEN "ok" ELSE "err"
    /\ UNCHANGED <<config, use_ssl, resolve_op, resolve_result, out_socket,
                   timeout_timer, connect_op, connect_result, timer_expired,
                   co_log>>
    /\ UNCHANGED notConnVars

\* line 255: error, for the handler of a handshake that ended as op
HandshakeFailed_Never(op) == FALSE

HandshakeFailed(op) == op = "ready_err"

\* lines 254-270: the handshake handler
handshake_handler ==
    /\ handshake_op \in {"ready_ok", "ready_err"}
    /\ handshake_op' = "done"
    /\ co_log' = IF HandshakeFailed(handshake_op)
                 THEN co_log \o <<"log_error_handshake", "destroy">>
                 ELSE co_log \o <<"log_tunnel_established", "connected_handler">>
    /\ UNCHANGED <<config, use_ssl, resolve_op, resolve_result, out_socket,
                   timeout_timer, connect_op, connect_result, handshake_result,
                   timer_expired>>
    /\ UNCHANGED notConnVars

ConnNext ==
    \/ \E cfg \in Configs, ssl \in BOOLEAN : connect_out_socket(cfg, ssl)
    \/ \E res \in {"ok", "error", "empty"}, open_ok \in BOOLEAN,
          fastopen_set \in BOOLEAN :
          resolve_handler(res, open_ok, fastopen_set)
    \/ timer_expires
    \/ timer_handler
    \/ \E ok \in BOOLEAN : connect_completes(ok)
    \/ connect_handler
    \/ \E ok \in BOOLEAN : handshake_completes(ok)
    \/ handshake_handler

\* ------------------------------------------------------ connector: properties

\* C9: when the resolution completes with an error or with no result, the attempt
\* calls destroy() exactly once, opens no socket, starts no timer, issues no
\* connect and never calls the connected continuation.
C9_ResolveFailureDestroysOnce ==
    resolve_result \in {"error", "empty"} =>
        /\ Count(co_log, "destroy") = 1
        /\ ~out_socket.open
        /\ timeout_timer = "none"
        /\ connect_op = "none"
        /\ handshake_op = "none"
        /\ \A i \in DOMAIN co_log :
              co_log[i] \notin {"open", "timer_start", "async_connect",
                                "async_handshake", "connected_handler"}

\* the resolver has answered with an empty result set, a timeout being configured
C9_Witness ==
    /\ resolve_result = "empty"
    /\ resolve_op = "done"
    /\ config.connect_time_out > 0
    /\ co_log = <<"log_error_resolve", "destroy">>

\* C10: once the connect handler has run and cancelled the timeout timer, the
\* timer's handler never logs a timeout and never calls destroy().
C10_NoTimeoutAfterCancel ==
    \A i, j \in DOMAIN co_log :
        (i < j /\ co_log[i] = "timer_cancel") => co_log[j] # "log_error_timeout"

\* the handler invocations that byte t was delivered to
DeliveriesOf(t) ==
    {k \in DOMAIN rd_delivered : t \in SeqToSet(rd_delivered[k].data)}

\* C19: whatever calls are made, also from inside a running handler, each pushed
\* byte is delivered to at most one handler invocation and is otherwise still in the
\* buffer.
C19_NoByteLostOrDeliveredTwice ==
    \A t \in SeqToSet(rd_pushed) :
        /\ Cardinality(DeliveriesOf(t)) <= 1
        /\ DeliveriesOf(t) = {} => t \in SeqToSet(rd_data_queue)

\* the caller's view of line 138 before a call: nothing queued, not connected, or a
\* write in flight
DrainBlocked == data_queue = <<>> \/ ~connected \/ outstanding # <<>>

\* C16: a drain attempt made when the queue is empty, the transport is not
\* connected or a write is in flight issues no write and leaves queued bytes, queued
\* callbacks, in-flight bytes, in-flight callbacks and the flag unchanged; a push
\* made while not connected or while a write is in flight only appends its bytes and
\* its callback to the queues.
C16_BlockedDrainChangesNothing ==
    [][/\ (async_send /\ DrainBlocked) =>
              UNCHANGED <<data_queue, handler_queue, sending_data_buff,
                          sending_data_handler, is_async_sending, outstanding,
                          written>>
       /\ \A d \in PushData :
              (push_data(d) /\ (~connected \/ outstanding # <<>>)) =>
                  /\ data_queue' = data_queue \o d
                  /\ handler_queue' = Append(handler_queue, npush + 1)
                  /\ UNCHANGED <<sending_data_buff, sending_data_handler,
                                 is_async_sending, outstanding, written>>]_vars

\* two pushes made while not connected are both retained, in push order, and
\* nothing has been written
C16_Witness ==
    /\ ~connected
    /\ data_queue = <<1, 2>>
    /\ handler_queue = <<1, 2>>
    /\ written = <<>>
    /\ ~is_async_sending

\* the bytes handed to the writer so far, in the order of the writes
RECURSIVE Flat(_)
Flat(w) == IF w = <<>> THEN <<>> ELSE Head(w) \o Flat(Tail(w))

\* C17: with the transport connected and every write completing successfully, every
\* queued byte is eventually handed to the writer; bytes are handed over without
\* duplication and pushed bytes in push order; once the completion handler has
\* returned and no write is in flight, no byte is queued.
C17_QueuedBytesEventuallyWritten ==
    /\ \A t \in (-MaxInsert)..MaxPush :
           (t \in SeqToSet(data_queue)) ~> (t \in SeqToSet(Flat(written)))
    /\ [](\A i, j \in DOMAIN Flat(written) :
              i < j => /\ Flat(written)[i] # Flat(written)[j]
                       /\ (Flat(written)[i] > 0 /\ Flat(written)[j] > 0)
                              => Flat(written)[i] < Flat(written)[j])
    /\ []((outstanding = <<>> /\ send_pc = "idle") => data_queue = <<>>)

\* the bytes of two pushes made while the first write was outstanding have been
\* handed to the writer together by the drain after its completion
C17_Witness ==
    /\ written = <<<<1>>, <<2, 3>>>>
    /\ fired = <<1>>
    /\ send_pc = "idle"

\* the error log entries of the connectors
ErrorLogs == {"log_error_resolve", "log_error_timeout", "log_error_connect",
              "log_error_handshake"}

\* C11: every destroy() made for a terminal failure is preceded, in the same
\* handler, by an error log entry.
C11_DestroyPrecededByErrorLog ==
    \A i \in DOMAIN co_log :
        co_log[i] = "destroy" => (i > 1 /\ co_log[i - 1] \in ErrorLogs)

\* the attempt has called its connected continuation (for
\* connect_remote_server_ssl, the lambda of line 253 that starts the handshake) or
\* destroy()
Concluded ==
    \E i \in DOMAIN co_log :
        co_log[i] \in {"destroy", "connected_handler", "async_handshake"}

\* C12: with a positive connect_time_out, once the connect is issued the attempt
\* eventually calls its connected continuation or destroy(), even if the connect
\* never completes; and when the timer expires before the connect completes,
\* destroy() is called.
C12_TimeoutConcludesAttempt ==
    /\ (config.connect_time_out > 0 /\ connect_op = "pending") ~> Concluded
    /\ (timeout_timer = "ready_ok" /\ connect_op = "pending")
           ~> (Count(co_log, "destroy") > 0)

\* the connect never completed and the timer's handler has destroyed the session
C12_Witness ==
    /\ config.connect_time_out > 0
    /\ connect_op = "pending"
    /\ timeout_timer = "done"
    /\ co_log = <<"log_all_resolved", "open", "timer_start", "async_connect",
                  "log_error_timeout", "destroy">>

\* entries a, b, c, d occur in the log in this order, all before position k
InOrderBefore(a, b, c, d, k) ==
    \E i, j, m, n \in 1..(k - 1) :
        /\ i < j /\ j < m /\ m < n
        /\ co_log[i] = a /\ co_log[j] = b /\ co_log[m] = c /\ co_log[n] = d

\* C13: connect_remote_server_ssl calls the caller's continuation at most once, and
\* only after the resolution succeeded, the socket was opened, the connect
\* completed without error and the handshake, started only after that, completed
\* without error; a failed handshake ends in destroy() without the continuation.
C13_SslContinuationAfterHandshake ==
    use_ssl =>
        /\ Count(co_log, "connected_handler") <= 1
        /\ \A k \in DOMAIN co_log :
              co_log[k] = "connected_handler" =>
                  /\ resolve_result = "ok"
                  /\ connect_result = "ok"
                  /\ handshake_result = "ok"
                  /\ out_socket.open
                  /\ InOrderBefore("log_all_resolved", "open", "async_connect",
                                   "async_handshake", k)
        /\ \A k \in DOMAIN co_log :
              co_log[k] = "async_handshake" => connect_result = "ok"
        /\ handshake_result # "none" => Count(co_log, "async_handshake") = 1
        /\ (handshake_op = "done" /\ handshake_result = "err") =>
              /\ Count(co_log, "connected_handler") = 0
              /\ \E k \in DOMAIN co_log :
                    /\ k > 1
                    /\ co_log[k] = "destroy"
                    /\ co_log[k - 1] = "log_error_handshake"

\* the caller's continuation has been called by the handshake handler, with a
\* timeout configured
C13_Witness ==
    /\ use_ssl
    /\ config.connect_time_out > 0
    /\ handshake_op = "done"
    /\ co_log[Len(co_log)] = "connected_handler"

\* C18: once destroy() has been called during the attempt, the connected
\* continuation is never called afterwards.
C18_NoContinuationAfterDestroy ==
    \A i, j \in DOMAIN co_log :
        (i < j /\ co_log[i] = "destroy") => co_log[j] # "connected_handler"

\* C20, as claimed: the attempt calls destroy() at most once across all of its
\* handlers.
C20_DestroyAtMostOnce ==
    Count(co_log, "destroy") <= 1

\* C20, amended: the attempt calls destroy() at most once unless its timeout timer
\* has expired; then at most twice, one of the two calls being the timer handler's.
C20_DestroyOnceUnlessTimerExpired ==
    /\ ~timer_expired => Count(co_log, "destroy") <= 1
    /\ Count(co_log, "destroy") <= 2
    /\ Count(co_log, "destroy") = 2 => Count(co_log, "log_error_timeout") = 1

\* the timer's handler and then the connect handler, on its error path, have both
\* called destroy()
C20_Witness ==
    /\ Count(co_log, "destroy") = 2
    /\ Count(co_log, "log_error_connect") = 1
    /\ co_log[Len(co_log) - 2] = "timer_cancel"

\* ---------------------------------------------------- shutdown_ssl_socket

\* a TLS socket that is still open, before any call
ShutInit ==
    /\ socket_open = TRUE
    /\ ssl_shutdown = <<>>
    /\ nshutdown = 0

\* socket.next_layer().cancel(ec), lines 285 and 290: every async_shutdown still
\* pending on the socket completes with operation_aborted
SocketCancelled(s) ==
    [k \in DOMAIN s |->
        IF s[k].op = "pending" THEN [s[k] EXCEPT !.op = "ready_aborted"] ELSE s[k]]

\* line 280: error == boost::asio::error::operation_aborted
Aborted_Never(e) == FALSE

Aborted(e) == e = "ready_aborted"

\* lines 283-287, the body of ssl_shutdown_cb of call i after the test of line 280:
\* cancel its timer, cancel the socket's operations, shut down and close
Finalized(i, s) ==
    SocketCancelled([s EXCEPT ![i].timer = Cancelled(s[i].timer)])

\* lines 275-294, shutdown_ssl_socket(this_ptr, socket)
shutdown_ssl_socket ==
    /\ nshutdown < MaxShutdownCalls
    /\ nshutdown' = nshutdown + 1
    /\ IF socket_open
       THEN ssl_shutdown' = Append(SocketCancelled(ssl_shutdown),
                                   [timer |-> "waiting", op |-> "pending",
                                    by_op |-> 0, by_timer |-> 0])
       ELSE UNCHANGED ssl_shutdown
    /\ UNCHANGED socket_open
    /\ UNCHANGED notShutVars

\* line 291: the async_shutdown of call i completes, with the peer's close-notify
\* (ok) or with an error of the transport
shutdown_completes(i, ok) ==
    /\ ssl_shutdown[i].op = "pending"
    /\ ssl_shutdown' = [ssl_shutdown EXCEPT ![i].op = IF ok THEN "ready_ok"
                                                           ELSE "ready_err"]
    /\ UNCHANGED <<socket_open, nshutdown>>
    /\ UNCHANGED notShutVars

\* lines 292-293: the 30 seconds of the timer of call i have passed
shutdown_timer_expires(i) ==
    /\ ssl_shutdown[i].timer = "waiting"
    /\ ssl_shutdown' = [ssl_shutdown EXCEPT ![i].timer = "ready_ok"]
    /\ UNCHANGED <<socket_open, nshutdown>>
    /\ UNCHANGED notShutVars

\* lines 279-288, ssl_shutdown_cb run as the handler of the async_shutdown of call i
ssl_shutdown_cb_op(i) ==
    /\ ssl_shutdown[i].op \in {"ready_ok", "ready_err", "ready_aborted"}
    /\ IF Aborted(ssl_shutdown[i].op)
       THEN /\ ssl_shutdown' = [ssl_shutdown EXCEPT ![i].op = "done"]
            /\ UNCHANGED socket_open
       ELSE /\ ssl_shutdown' =
                   Finalized(i, [ssl_shutdown EXCEPT ![i].op = "done",
                                                     ![i].by_op = @ + 1])
            /\ socket_open' = FALSE
    /\ UNCHANGED nshutdown
    /\ UNCHANGED notShutVars

\* lines 279-288, ssl_shutdown_cb run as the handler of the wait on the timer of
\* call i
ssl_shutdown_cb_timer(i) ==
    /\ ssl_shutdown[i].timer \in {"ready_ok", "ready_aborted"}
    /\ IF Aborted(ssl_shutdown[i].timer)
       THEN /\ ssl_shutdown' = [ssl_shutdown EXCEPT ![i].timer = "done"]
            /\ UNCHANGED socket_open
       ELSE /\ ssl_shutdown' =
                   Finalized(i, [ssl_shutdown EXCEPT ![i].timer = "done",
                                                     ![i].by_timer = @ + 1])
            /\ socket_open' = FALSE
    /\ UNCHANGED nshutdown
    /\ UNCHANGED notShutVars

ShutNext ==
    \/ shutdown_ssl_socket
    \/ \E i \in DOMAIN ssl_shutdown : \E ok \in BOOLEAN : shutdown_completes(i, ok)
    \/ \E i \in DOMAIN ssl_shutdown : shutdown_timer_expires(i)
    \/ \E i \in DOMAIN ssl_shutdown : ssl_shutdown_cb_op(i)
    \/ \E i \in DOMAIN ssl_shutdown : ssl_shutdown_cb_timer(i)

\* the timers and pending operations of the calls, without the history fields
ShutState(s) == [k \in DOMAIN s |-> [timer |-> s[k].timer, op |-> s[k].op]]

\* C14: for each call on an open socket, whichever way the close-notify completion
\* and the timer expiry interleave, the body of lines 283-287 runs at most once (and,
\* with C15, exactly once).
C14_FinalizerRunsOnce ==
    \A i \in DOMAIN ssl_shutdown :
        ssl_shutdown[i].by_op + ssl_shutdown[i].by_timer <= 1

\* C15: after a call on an open socket the socket is eventually closed.  When the
\* close-notify handler runs while the timer waits, it closes the socket and
\* cancels the timer, whose aborted handler then changes nothing; a timer that
\* expires closes the socket; a close-notify handler that runs after the timer of
\* its call has closed the socket, or with operation_aborted, changes no timer, no
\* operation and not the socket.
C15_ShutdownClosesSocket ==
    /\ (ssl_shutdown # <<>>) ~> ~socket_open
    /\ [][\A i \in DOMAIN ssl_shutdown :
            /\ (ssl_shutdown_cb_op(i) /\ ssl_shutdown[i].op # "ready_aborted"
                                      /\ ssl_shutdown[i].timer = "waiting") =>
                   /\ ~socket_open'
                   /\ ssl_shutdown'[i].timer = "ready_aborted"
            /\ (ssl_shutdown_cb_timer(i) /\ ssl_shutdown[i].timer = "ready_aborted") =>
                   /\ socket_open' = socket_open
                   /\ ShutState(ssl_shutdown') =
                          ShutState([ssl_shutdown EXCEPT ![i].timer = "done"])
                   /\ ssl_shutdown'[i].by_timer = 0
            /\ (ssl_shutdown_cb_timer(i) /\ ssl_shutdown[i].timer = "ready_ok") =>
                   ~socket_open'
            /\ (ssl_shutdown_cb_op(i)
                  /\ \/ ssl_shutdown[i].op = "ready_aborted"
                     \/ ssl_shutdown[i].by_timer > 0) =>
                   /\ socket_open' = socket_open
                   /\ ShutState(ssl_shutdown') =
                          ShutState([ssl_shutdown EXCEPT ![i].op = "done"])]_vars

\* the close-notify of a call completed first: its handler closed the socket and
\* cancelled the timer, and the timer's aborted handler has run and done nothing
C15_Witness ==
    /\ ~socket_open
    /\ ssl_shutdown = <<[timer |-> "done", op |-> "done", by_op |-> 1,
                         by_timer |-> 0]>>

Init == SendInit /\ ReadInit /\ ConnInit /\ ShutInit

SpecSend == Init /\ [][SendNext]_vars

\* SendDataCache on a transport that stays connected and whose writes all succeed,
\* every write completing and every SentHandler returning
SendOkNext ==
    \/ \E d \in PushData : push_data(d)
    \/ \E d \in InsertData : insert_data(d)
    \/ async_send
    \/ write_done
    \/ handler_return

SpecSendOk ==
    /\ Init
    /\ [][SendOkNext]_vars
    /\ WF_vars(write_done)
    /\ WF_vars(handler_return)

SpecRead == Init /\ [][ReadNext]_vars

SpecConn == Init /\ [][ConnNext]_vars

\* the timer expires when its time has passed, and the io_context runs every queued
\* handler; nothing makes a connect or a handshake complete
SpecConnFair ==
    /\ SpecConn
    /\ WF_vars(timer_expires)
    /\ WF_vars(timer_handler)
    /\ WF_vars(connect_handler)
    /\ WF_vars(handshake_handler)

\* shutdown_ssl_socket on one socket
SpecShut == Init /\ [][ShutNext]_vars

\* each timer expires when its 30 seconds have passed, and the io_context runs every
\* queued handler; nothing makes the peer answer the close-notify
SpecShutFair ==
    /\ SpecShut
    /\ \A i \in 1..MaxShutdownCalls :
           /\ WF_vars(i \in DOMAIN ssl_shutdown /\ shutdown_timer_expires(i))
           /\ WF_vars(i \in DOMAIN ssl_shutdown /\ ssl_shutdown_cb_op(i))
           /\ WF_vars(i \in DOMAIN ssl_shutdown /\ ssl_shutdown_cb_timer(i))

=============================================================================
